---- MODULE Spec2Model ----
(***************************************************************************)
(* Model of the bounded-parallelism orchestrator of vm-spinner             *)
(* (src/main.go, runApp).  One main goroutine dispatches a worker per      *)
(* image behind a weighted semaphore, workers select on the event          *)
(* channels of their VM session and forward command output on the          *)
(* unbuffered channel resCh, one aggregator goroutine ranges over resCh    *)
(* and calls job.Process, and the main goroutine joins the workers,        *)
(* closes resCh, joins the aggregator and calls job.Done.                  *)
(*                                                                         *)
(* RunVirtualMachine and the channels it returns are not part of the       *)
(* available sources: a session is modelled from the specification as a    *)
(* sequential emitter that offers one event at a time on the channel of    *)
(* its kind and hands it over by rendezvous.                               *)
(***************************************************************************)
EXTENDS Integers, Sequences, FiniteSets, TLC

\* ---------------------------------------------------------------- bounds
MaxImages == 2      \* longest image list explored
MaxPar    == 2      \* largest parallelism explored
MaxLines  == 2      \* CmdOutput events one VM session may emit
MaxCPU    == 3      \* largest host CPU count explored
MaxDispatch == 3    \* longest image list explored for the dispatch alone

ImageNames == {"A", "B"}

EventKinds == {"Done", "CmdOutput", "Debug", "Info", "Error"}

NoEvent == [kind |-> "None", line |-> 0]
NoMsg   == [VM |-> "", Line |-> 0, src |-> 0]

VARIABLES
    numCPU,       \* runtime.NumCPU()
    defaults,     \* the flags among cpus, parallelism the command line omits
    cpus,         \* c.GlobalInt("cpus")
    warned,       \* history: validateParameters printed its warning
    err,          \* the error runApp ended with, "none" so far
    images,       \* job.Images()
    parallelism,  \* c.GlobalInt("parallelism")
    pc,           \* position of the main goroutine in runApp
    i,            \* number of loop iterations of the dispatch loop completed
    wg,           \* counter of the WaitGroup wg
    smCur,        \* tokens of the semaphore sm currently held
    resWg,        \* counter of the WaitGroup resWg
    resChClosed,  \* resCh has been closed
    apc,          \* position of the aggregator goroutine
    res,          \* the loop variable res of the aggregator
    wpc,          \* position of each worker goroutine
    wval,         \* the VMOutput a worker is sending
    offer,        \* the event each VM session is currently offering
    nOut,         \* number of CmdOutput events each session has emitted
    outs,         \* history: CmdOutput lines each session emitted before Done
    doneEmitted,  \* history: the session has emitted Done
    errRecv,      \* history: the worker has received an Error event
    acq,          \* history: tokens acquired for each image index
    rel,          \* history: tokens released by each worker
    sentLog,      \* history: VMOutputs in the order their sends completed
    procLog,      \* history: VMOutputs in the order job.Process was invoked
    processing,   \* number of job.Process invocations in progress
    closeCalls,   \* history: number of close(resCh) executed
    doneCalls,    \* history: number of job.Done() invocations
    panicked      \* the process died of a runtime panic

vars == <<numCPU, defaults, cpus, warned, err, images, parallelism, pc, i, wg, smCur, resWg, resChClosed, apc, res,
          wpc, wval, offer, nOut, outs, doneEmitted, errRecv, acq, rel,
          sentLog, procLog, processing, closeCalls, doneCalls, panicked>>

mainVars   == <<pc, i>>
aggVars    == <<apc, res>>
sessVars   == <<offer, nOut, outs, doneEmitted>>
inputVars  == <<images, parallelism>>
cfgVars    == <<numCPU, defaults, cpus, warned, err>>

Workers == 1..Len(images)

SeqsUpTo(S, n) == UNION {[1..m -> S] : m \in 0..n}

\* The image lists explored.  runApp only copies an image name into the
\* VMConfig and the VMOutput, so lists are taken up to renaming: the first
\* image is "A", a later one repeats it or differs from it.
ImageLists == {s \in SeqsUpTo(ImageNames, MaxImages) : Len(s) > 0 => s[1] = "A"}

\* ---------------------------------------------------------- flag defaults
defaultParallelism(n) == n \div 2

\* runtime.NumCPU() / defaultParallelism(): an integer division by zero is a
\* run-time panic in Go; val is meaningful only without it.
defaultNumCPUs(n) ==
    [panic |-> defaultParallelism(n) = 0,
     val   |-> IF defaultParallelism(n) = 0 THEN 0 ELSE n \div defaultParallelism(n)]

\* A validation that rejects what the code only warns about.
validateParametersProduct(c, p, n) ==
    IF c > n THEN "cpus"
    ELSE IF p > n \/ p * c > n THEN "parallelism"
    ELSE "nil"

\* The error validateParameters returns for cpus c, parallelism p on a host
\* of n CPUs: "cpus", "parallelism", or "nil".
validateParameters(c, p, n) ==
    IF c > n THEN "cpus"
    ELSE IF p > n THEN "parallelism"
    ELSE "nil"

\* validateParameters prints its warning (and returns nil)
Warns(c, p, n) == validateParameters(c, p, n) = "nil" /\ p * c > n

\* The state of the orchestration when runApp is entered: nothing created or
\* started, no goroutine has taken a step.
Pristine ==
    /\ i = 0
    /\ wg = 0
    /\ smCur = 0
    /\ resWg = 1
    /\ resChClosed = FALSE
    /\ apc = "recv"
    /\ res = NoMsg
    /\ wpc = [k \in Workers |-> "idle"]
    /\ wval = [k \in Workers |-> NoMsg]
    /\ offer = [k \in Workers |-> NoEvent]
    /\ nOut = [k \in Workers |-> 0]
    /\ outs = [k \in Workers |-> <<>>]
    /\ doneEmitted = [k \in Workers |-> FALSE]
    /\ errRecv = [k \in Workers |-> FALSE]
    /\ acq = [k \in Workers |-> 0]
    /\ rel = [k \in Workers |-> 0]
    /\ sentLog = <<>>
    /\ procLog = <<>>
    /\ processing = 0
    /\ closeCalls = 0
    /\ doneCalls = 0
    /\ panicked = FALSE

\* ------------------------------------------------------------------ Init
\* State of runApp at the dispatch loop: validateParameters, initLog and
\* NewVMJob have succeeded, resCh, resWg, wg and sm are created and the
\* aggregator goroutine is started.  A parallelism of 0 passes the
\* validation and gives a semaphore of size 0.  Nothing after the validation
\* reads the host CPU count, and cpus is only copied into the VMConfig, so
\* one accepted setting of them is taken.
\* A host on which every parallelism explored passes the validation.
HostCPUs == IF MaxPar < 2 THEN 2 ELSE MaxPar

Init ==
    /\ images \in ImageLists
    /\ parallelism \in 0..MaxPar
    /\ numCPU = HostCPUs
    /\ defaults = {}
    /\ cpus = 1
    /\ warned = FALSE
    /\ err = "none"
    /\ pc = "loop"
    /\ Pristine

\* State when the process starts: the host has numCPU CPUs and the command
\* line gives each of the flags cpus and parallelism a value or omits it,
\* which leaves the flag at its default.
GivenValues == 0..(MaxCPU + 1)

InitConfig ==
    /\ images \in ImageLists
    /\ numCPU \in 1..MaxCPU
    /\ defaults \in SUBSET {"cpus", "parallelism"}
    /\ parallelism \in IF "parallelism" \in defaults
                         THEN {defaultParallelism(numCPU)}
                         ELSE GivenValues
    /\ cpus \in IF "cpus" \in defaults
                  THEN {defaultNumCPUs(numCPU).val}
                  ELSE GivenValues
    /\ warned = FALSE
    /\ err = "none"
    /\ pc = "main"
    /\ Pristine

\* -------------------------------------------------------- main goroutine
\* main: the flag table is built, which evaluates defaultNumCPUs() and
\* defaultParallelism() whatever the command line gives, and app.Run parses
\* the command line and calls runApp.
ParseFlags ==
    /\ ~panicked
    /\ pc = "main"
    /\ IF defaultNumCPUs(numCPU).panic
         THEN /\ panicked' = TRUE
              /\ pc' = pc
         ELSE /\ panicked' = panicked
              /\ pc' = "validate"
    /\ UNCHANGED <<i, wg, smCur, resWg, resChClosed, wpc, wval, errRecv, acq,
                   rel, sentLog, procLog, processing, closeCalls, doneCalls,
                   aggVars, sessVars, inputVars, cfgVars>>

\* err := validateParameters(c); if err != nil { return err }
ValidateParameters ==
    /\ ~panicked
    /\ pc = "validate"
    /\ err' = LET e == validateParameters(cpus, parallelism, numCPU)
              IN  IF e = "nil" THEN err ELSE e
    /\ warned' = Warns(cpus, parallelism, numCPU)
    /\ pc' = IF validateParameters(cpus, parallelism, numCPU) = "nil"
               THEN "setup" ELSE "failed"
    /\ UNCHANGED <<i, wg, smCur, resWg, resChClosed, wpc, wval, errRecv, acq,
                   rel, sentLog, procLog, processing, closeCalls, doneCalls,
                   panicked, aggVars, sessVars, inputVars,
                   numCPU, defaults, cpus>>

\* initLog(c) and vmjobs.NewVMJob(c), either of which may fail and end the
\* run; then resCh, resWg, the aggregator goroutine, wg and sm are set up.
SetupOutcomes == {"ok", "initLog", "NewVMJob"}

Setup ==
    /\ ~panicked
    /\ pc = "setup"
    /\ \E o \in SetupOutcomes :
          /\ err' = IF o = "ok" THEN err ELSE o
          /\ pc' = IF o = "ok" THEN "loop" ELSE "failed"
    /\ UNCHANGED <<i, wg, smCur, resWg, resChClosed, wpc, wval, errRecv, acq,
                   rel, sentLog, procLog, processing, closeCalls, doneCalls,
                   panicked, aggVars, sessVars, inputVars,
                   numCPU, defaults, cpus, warned>>

\* A dispatch loop that also counts a worker when it leaves the loop.
LoopHeadAddsOnExit ==
    /\ ~panicked
    /\ pc = "loop"
    /\ wg' = wg + 1
    /\ pc' = IF i < Len(images) THEN "acquire" ELSE "wait"
    /\ UNCHANGED <<i, smCur, resWg, resChClosed, wpc, wval, errRecv, acq, rel,
                   sentLog, procLog, processing, closeCalls, doneCalls,
                   panicked, aggVars, sessVars, inputVars, cfgVars>>

\* for i, image := range images { wg.Add(1) ...   or leave the loop
LoopHead ==
    /\ ~panicked
    /\ pc = "loop"
    /\ IF i < Len(images)
         THEN /\ wg' = wg + 1
              /\ pc' = "acquire"
         ELSE /\ wg' = wg
              /\ pc' = "wait"
    /\ UNCHANGED <<i, smCur, resWg, resChClosed, wpc, wval, errRecv, acq, rel,
                   sentLog, procLog, processing, closeCalls, doneCalls,
                   panicked, aggVars, sessVars, inputVars, cfgVars>>

\* A semaphore created one token too large.
TokenFreeOffByOne == parallelism + 1 - smCur >= 1

\* An acquire that never blocks.
TokenFreeAlways == TRUE

\* sm.Acquire(context.Background(), 1): blocks until a token is free; with
\* a size below the requested weight it blocks until the context is done,
\* which context.Background() never is.
TokenFree == parallelism - smCur >= 1

SemAcquire ==
    /\ ~panicked
    /\ pc = "acquire"
    /\ TokenFree
    /\ smCur' = smCur + 1
    /\ acq' = [acq EXCEPT ![i + 1] = @ + 1]
    /\ pc' = "go"
    /\ UNCHANGED <<i, wg, resWg, resChClosed, wpc, wval, errRecv, rel,
                   sentLog, procLog, processing, closeCalls, doneCalls,
                   panicked, aggVars, sessVars, inputVars, cfgVars>>

\* A dispatch loop that starts the workers from the end of the list.
StartWorkerReversed ==
    /\ ~panicked
    /\ pc = "go"
    /\ wpc' = [wpc EXCEPT ![Len(images) - i] = "start"]
    /\ i' = i + 1
    /\ pc' = "loop"
    /\ UNCHANGED <<wg, smCur, resWg, resChClosed, wval, errRecv, acq, rel,
                   sentLog, procLog, processing, closeCalls, doneCalls,
                   panicked, aggVars, sessVars, inputVars, cfgVars>>

\* conf := &VMConfig{...}; go func() {...}()
StartWorker ==
    /\ ~panicked
    /\ pc = "go"
    /\ wpc' = [wpc EXCEPT ![i + 1] = "start"]
    /\ i' = i + 1
    /\ pc' = "loop"
    /\ UNCHANGED <<wg, smCur, resWg, resChClosed, wval, errRecv, acq, rel,
                   sentLog, procLog, processing, closeCalls, doneCalls,
                   panicked, aggVars, sessVars, inputVars, cfgVars>>

\* A join that does not wait for the workers.
WgZeroSkipped == TRUE

\* wg.Wait() returns once the counter of wg is zero
WgZero == wg = 0

WgWait ==
    /\ ~panicked
    /\ pc = "wait"
    /\ WgZero
    /\ pc' = "close"
    /\ UNCHANGED <<i, wg, smCur, resWg, resChClosed, wpc, wval, errRecv, acq,
                   rel, sentLog, procLog, processing, closeCalls, doneCalls,
                   panicked, aggVars, sessVars, inputVars, cfgVars>>

\* close(resCh): closing a closed channel panics, and so does every sender
\* blocked on the channel at that moment.
CloseResCh ==
    /\ ~panicked
    /\ pc = "close"
    /\ closeCalls' = closeCalls + 1
    /\ resChClosed' = TRUE
    /\ panicked' = (resChClosed \/ \E k \in Workers : wpc[k] = "send")
    /\ pc' = "reswait"
    /\ UNCHANGED <<i, wg, smCur, resWg, wpc, wval, errRecv, acq, rel,
                   sentLog, procLog, processing, doneCalls,
                   aggVars, sessVars, inputVars, cfgVars>>

\* A join that does not wait for the aggregator.
ResWgZeroSkipped == TRUE

\* resWg.Wait() returns once the counter of resWg is zero
ResWgZero == resWg = 0

ResWgWait ==
    /\ ~panicked
    /\ pc = "reswait"
    /\ ResWgZero
    /\ pc' = "jobdone"
    /\ UNCHANGED <<i, wg, smCur, resWg, resChClosed, wpc, wval, errRecv, acq,
                   rel, sentLog, procLog, processing, closeCalls, doneCalls,
                   panicked, aggVars, sessVars, inputVars, cfgVars>>

\* job.Done(); return nil
JobDone ==
    /\ ~panicked
    /\ pc = "jobdone"
    /\ doneCalls' = doneCalls + 1
    /\ pc' = "returned"
    /\ UNCHANGED <<i, wg, smCur, resWg, resChClosed, wpc, wval, errRecv, acq,
                   rel, sentLog, procLog, processing, closeCalls,
                   panicked, aggVars, sessVars, inputVars, cfgVars>>

\* ------------------------------------------------------ VM session (runtime)
\* The session of worker k emits its next event: it offers it on the channel
\* of its kind and waits for the worker to take it.  A session emits at most
\* one Done; nothing forces it to emit Done, or to stop after it.  The
\* worker takes no event after Done, whatever its kind, so after Done only
\* further command output is explored.
\* Command output lines are numbered in the order the session emits them;
\* the payload of the other kinds is only logged and is left out.
WellFormedEmit(k, kind) ==
    /\ doneEmitted[k] => kind = "CmdOutput"
    /\ kind = "CmdOutput" => nOut[k] < MaxLines

Emit(k, kind) ==
    /\ ~panicked
    /\ wpc[k] \notin {"idle", "start"}
    /\ offer[k] = NoEvent
    /\ WellFormedEmit(k, kind)
    /\ offer' = [offer EXCEPT ![k] =
                   [kind |-> kind,
                    line |-> IF kind = "CmdOutput" THEN nOut[k] + 1 ELSE 0]]
    /\ nOut' = IF kind = "CmdOutput" THEN [nOut EXCEPT ![k] = @ + 1] ELSE nOut
    /\ outs' = IF kind = "CmdOutput" /\ ~doneEmitted[k]
                 THEN [outs EXCEPT ![k] = Append(@, nOut[k] + 1)]
                 ELSE outs
    /\ doneEmitted' = [doneEmitted EXCEPT ![k] = @ \/ kind = "Done"]
    /\ UNCHANGED <<wg, smCur, resWg, resChClosed, wpc, wval, errRecv, acq, rel,
                   sentLog, procLog, processing, closeCalls, doneCalls,
                   panicked, mainVars, aggVars, inputVars, cfgVars>>

\* ------------------------------------------------------ worker goroutine
\* channels := RunVirtualMachine(conf)
RunVirtualMachine(k) ==
    /\ ~panicked
    /\ wpc[k] = "start"
    /\ wpc' = [wpc EXCEPT ![k] = "select"]
    /\ UNCHANGED <<wg, smCur, resWg, resChClosed, wval, errRecv, acq, rel,
                   sentLog, procLog, processing, closeCalls, doneCalls,
                   panicked, mainVars, aggVars, sessVars, inputVars, cfgVars>>

\* A worker that goes on selecting while its send is pending.
ReadyWhileSending(k, kind) ==
    /\ ~panicked
    /\ wpc[k] \in {"select", "send"}
    /\ offer[k].kind = kind

\* The worker is at its select and the session offers an event of this kind.
Ready(k, kind) ==
    /\ ~panicked
    /\ wpc[k] = "select"
    /\ offer[k].kind = kind

\* VMOutput{VM: conf.BoxName, Line: l}; src is the history of its origin.
VMOutput(k, l) == [VM |-> images[k], Line |-> l, src |-> k]

\* case <-channels.Done: return, which runs the deferred function
RecvDone(k) ==
    /\ Ready(k, "Done")
    /\ offer' = [offer EXCEPT ![k] = NoEvent]
    /\ wpc' = [wpc EXCEPT ![k] = "release"]
    /\ UNCHANGED <<wg, smCur, resWg, resChClosed, wval, errRecv, acq, rel,
                   sentLog, procLog, processing, closeCalls, doneCalls,
                   panicked, nOut, outs, doneEmitted,
                   mainVars, aggVars, inputVars, cfgVars>>

\* case l := <-channels.CmdOutput: the worker goes on to send on resCh
RecvCmdOutput(k) ==
    /\ Ready(k, "CmdOutput")
    /\ wval' = [wval EXCEPT ![k] = VMOutput(k, offer[k].line)]
    /\ offer' = [offer EXCEPT ![k] = NoEvent]
    /\ wpc' = [wpc EXCEPT ![k] = "send"]
    /\ UNCHANGED <<wg, smCur, resWg, resChClosed, errRecv, acq, rel,
                   sentLog, procLog, processing, closeCalls, doneCalls,
                   panicked, nOut, outs, doneEmitted,
                   mainVars, aggVars, inputVars, cfgVars>>

\* A Debug case that forwards the line on resCh.
RecvDebugForwards(k) ==
    /\ Ready(k, "Debug")
    /\ wval' = [wval EXCEPT ![k] = VMOutput(k, offer[k].line)]
    /\ offer' = [offer EXCEPT ![k] = NoEvent]
    /\ wpc' = [wpc EXCEPT ![k] = "send"]
    /\ UNCHANGED <<wg, smCur, resWg, resChClosed, errRecv, acq, rel,
                   sentLog, procLog, processing, closeCalls, doneCalls,
                   panicked, nOut, outs, doneEmitted,
                   mainVars, aggVars, inputVars, cfgVars>>

\* case l := <-channels.Debug: logged only
RecvDebug(k) ==
    /\ Ready(k, "Debug")
    /\ offer' = [offer EXCEPT ![k] = NoEvent]
    /\ UNCHANGED <<wg, smCur, resWg, resChClosed, wpc, wval, errRecv, acq, rel,
                   sentLog, procLog, processing, closeCalls, doneCalls,
                   panicked, nOut, outs, doneEmitted,
                   mainVars, aggVars, inputVars, cfgVars>>

\* case l := <-channels.Info: logged only
RecvInfo(k) ==
    /\ Ready(k, "Info")
    /\ offer' = [offer EXCEPT ![k] = NoEvent]
    /\ UNCHANGED <<wg, smCur, resWg, resChClosed, wpc, wval, errRecv, acq, rel,
                   sentLog, procLog, processing, closeCalls, doneCalls,
                   panicked, nOut, outs, doneEmitted,
                   mainVars, aggVars, inputVars, cfgVars>>

\* An Error case that returns from the worker.
AfterErrorReturns(k) == [wpc EXCEPT ![k] = "release"]

\* An Error case that forwards the error on resCh as if it were output.
AfterErrorForwards(k) == [wpc EXCEPT ![k] = "send"]

\* What the Error case does to the position of the worker: it stays in the
\* loop, at the select.
AfterError(k) == wpc

\* case err := <-channels.Error: logged only
RecvError(k) ==
    /\ Ready(k, "Error")
    /\ offer' = [offer EXCEPT ![k] = NoEvent]
    /\ errRecv' = [errRecv EXCEPT ![k] = TRUE]
    /\ wpc' = AfterError(k)
    /\ UNCHANGED <<wg, smCur, resWg, resChClosed, wval, acq, rel,
                   sentLog, procLog, processing, closeCalls, doneCalls,
                   panicked, nOut, outs, doneEmitted,
                   mainVars, aggVars, inputVars, cfgVars>>

\* A send that does not block: with no receiver waiting the value is dropped.
SendResChNonBlocking(k) ==
    /\ ~panicked
    /\ wpc[k] = "send"
    /\ ~resChClosed
    /\ IF apc = "recv"
         THEN /\ res' = wval[k]
              /\ apc' = "call"
              /\ sentLog' = Append(sentLog, wval[k])
         ELSE UNCHANGED <<sentLog, aggVars>>
    /\ wval' = [wval EXCEPT ![k] = NoMsg]
    /\ wpc' = [wpc EXCEPT ![k] = "select"]
    /\ UNCHANGED <<wg, smCur, resWg, resChClosed, errRecv, acq, rel,
                   procLog, processing, closeCalls, doneCalls, panicked,
                   mainVars, sessVars, inputVars, cfgVars>>

\* resCh <- VMOutput{...} on the unbuffered channel resCh: the send
\* completes when the aggregator, waiting in its range, takes the value;
\* a send on a closed channel panics.
SendResCh(k) ==
    /\ ~panicked
    /\ wpc[k] = "send"
    /\ IF resChClosed
         THEN /\ panicked' = TRUE
              /\ UNCHANGED <<wpc, wval, sentLog, aggVars>>
         ELSE /\ apc = "recv"
              /\ res' = wval[k]
              /\ apc' = "call"
              /\ sentLog' = Append(sentLog, wval[k])
              /\ wval' = [wval EXCEPT ![k] = NoMsg]
              /\ wpc' = [wpc EXCEPT ![k] = "select"]
              /\ UNCHANGED panicked
    /\ UNCHANGED <<wg, smCur, resWg, resChClosed, errRecv, acq, rel,
                   procLog, processing, closeCalls, doneCalls,
                   mainVars, sessVars, inputVars, cfgVars>>

\* A deferred function that signals the join before it releases.
SemReleaseSignalsJoinFirst(k) ==
    /\ ~panicked
    /\ wpc[k] = "release"
    /\ wg' = wg - 1
    /\ wpc' = [wpc EXCEPT ![k] = "wgdone"]
    /\ UNCHANGED <<smCur, resWg, resChClosed, wval, errRecv, acq, rel,
                   sentLog, procLog, processing, closeCalls, doneCalls,
                   panicked, mainVars, aggVars, sessVars, inputVars, cfgVars>>

\* A deferred function that only signals the join.
SemReleaseMissing(k) ==
    /\ ~panicked
    /\ wpc[k] = "release"
    /\ wpc' = [wpc EXCEPT ![k] = "wgdone"]
    /\ UNCHANGED <<wg, smCur, resWg, resChClosed, wval, errRecv, acq, rel,
                   sentLog, procLog, processing, closeCalls, doneCalls,
                   panicked, mainVars, aggVars, sessVars, inputVars, cfgVars>>

\* deferred: sm.Release(1), which panics when more is released than held
SemRelease(k) ==
    /\ ~panicked
    /\ wpc[k] = "release"
    /\ smCur' = smCur - 1
    /\ panicked' = (smCur - 1 < 0)
    /\ rel' = [rel EXCEPT ![k] = @ + 1]
    /\ wpc' = [wpc EXCEPT ![k] = "wgdone"]
    /\ UNCHANGED <<wg, resWg, resChClosed, wval, errRecv, acq,
                   sentLog, procLog, processing, closeCalls, doneCalls,
                   mainVars, aggVars, sessVars, inputVars, cfgVars>>

\* deferred: wg.Done(), which panics on a negative counter; the goroutine ends
WgDone(k) ==
    /\ ~panicked
    /\ wpc[k] = "wgdone"
    /\ wg' = wg - 1
    /\ panicked' = (wg - 1 < 0)
    /\ wpc' = [wpc EXCEPT ![k] = "exit"]
    /\ UNCHANGED <<smCur, resWg, resChClosed, wval, errRecv, acq, rel,
                   sentLog, procLog, processing, closeCalls, doneCalls,
                   mainVars, aggVars, sessVars, inputVars, cfgVars>>

\* --------------------------------------------------- aggregator goroutine
\* An aggregator that calls job.Done() itself when its range ends.
RangeEndCallsDone ==
    /\ ~panicked
    /\ apc = "recv"
    /\ resChClosed
    /\ apc' = "resdone"
    /\ doneCalls' = doneCalls + 1
    /\ UNCHANGED <<res, wg, smCur, resWg, resChClosed, wpc, wval, errRecv, acq,
                   rel, sentLog, procLog, processing, closeCalls,
                   panicked, mainVars, sessVars, inputVars, cfgVars>>

\* for res := range resCh ends once resCh is closed (nothing is buffered)
RangeEnd ==
    /\ ~panicked
    /\ apc = "recv"
    /\ resChClosed
    /\ apc' = "resdone"
    /\ UNCHANGED <<res, wg, smCur, resWg, resChClosed, wpc, wval, errRecv, acq,
                   rel, sentLog, procLog, processing, closeCalls, doneCalls,
                   panicked, mainVars, sessVars, inputVars, cfgVars>>

\* job.Process(res) started in a goroutine of its own.
ProcessCallAsync ==
    /\ ~panicked
    /\ apc = "call"
    /\ procLog' = Append(procLog, res)
    /\ processing' = processing + 1
    /\ res' = NoMsg
    /\ apc' = "recv"
    /\ UNCHANGED <<wg, smCur, resWg, resChClosed, wpc, wval, errRecv, acq,
                   rel, sentLog, closeCalls, doneCalls,
                   panicked, mainVars, sessVars, inputVars, cfgVars>>

\* job.Process(res) is invoked
ProcessCall ==
    /\ ~panicked
    /\ apc = "call"
    /\ procLog' = Append(procLog, res)
    /\ processing' = processing + 1
    /\ apc' = "process"
    /\ UNCHANGED <<res, wg, smCur, resWg, resChClosed, wpc, wval, errRecv, acq,
                   rel, sentLog, closeCalls, doneCalls,
                   panicked, mainVars, sessVars, inputVars, cfgVars>>

\* job.Process(res) returns and the range loop takes its next turn
ProcessReturn ==
    /\ ~panicked
    /\ apc = "process"
    /\ processing' = processing - 1
    /\ res' = NoMsg
    /\ apc' = "recv"
    /\ UNCHANGED <<wg, smCur, resWg, resChClosed, wpc, wval, errRecv, acq,
                   rel, sentLog, procLog, closeCalls, doneCalls,
                   panicked, mainVars, sessVars, inputVars, cfgVars>>

\* resWg.Done()
ResWgDone ==
    /\ ~panicked
    /\ apc = "resdone"
    /\ resWg' = resWg - 1
    /\ apc' = "exit"
    /\ UNCHANGED <<res, wg, smCur, resChClosed, wpc, wval, errRecv, acq,
                   rel, sentLog, procLog, processing, closeCalls, doneCalls,
                   panicked, mainVars, sessVars, inputVars, cfgVars>>

\* ------------------------------------------------------------------ Next
Session == \E k \in Workers : \E kind \in EventKinds : Emit(k, kind)

WorkerStep(k) ==
    /\ k \in Workers
    /\ \/ RunVirtualMachine(k)
       \/ RecvDone(k)
       \/ RecvCmdOutput(k)
       \/ RecvDebug(k)
       \/ RecvInfo(k)
       \/ RecvError(k)
       \/ SendResCh(k)
       \/ SemRelease(k)
       \/ WgDone(k)

Worker == \E k \in Workers : WorkerStep(k)

Aggregator == RangeEnd \/ ProcessCall \/ ProcessReturn \/ ResWgDone

Main == LoopHead \/ SemAcquire \/ StartWorker \/ WgWait \/ CloseResCh
           \/ ResWgWait \/ JobDone

Next == Main \/ Worker \/ Aggregator \/ Session

Spec == Init /\ [][Next]_vars

\* The Go scheduler runs every goroutine that can take a step, and
\* job.Process returns; a VM session is under no obligation to emit.
Fairness ==
    /\ WF_vars(Main)
    /\ WF_vars(Aggregator)
    /\ \A k \in 1..MaxImages : WF_vars(WorkerStep(k))

FairSpec == Spec /\ Fairness

\* The dispatch on longer image lists, in the runs in which no session emits
\* command output: the workers then never send and the aggregator only ends.
DispatchLists ==
    {s \in SeqsUpTo(ImageNames, MaxDispatch) : Len(s) > 0 => s[1] = "A"}

InitDispatch ==
    /\ images \in DispatchLists
    /\ parallelism \in 0..MaxPar
    /\ numCPU = HostCPUs
    /\ defaults = {}
    /\ cpus = 1
    /\ warned = FALSE
    /\ err = "none"
    /\ pc = "loop"
    /\ Pristine

QuietSession ==
    \E k \in Workers : \E kind \in EventKinds \ {"CmdOutput"} : Emit(k, kind)

QuietWorker ==
    \E k \in Workers :
        \/ RunVirtualMachine(k)
        \/ RecvDone(k)
        \/ RecvDebug(k)
        \/ RecvInfo(k)
        \/ RecvError(k)
        \/ SemRelease(k)
        \/ WgDone(k)

QuietAggregator == RangeEnd \/ ResWgDone

NextDispatch == Main \/ QuietWorker \/ QuietAggregator \/ QuietSession

SpecDispatch == InitDispatch /\ [][NextDispatch]_vars

\* The whole program, from the start of main.
Startup == ParseFlags \/ ValidateParameters \/ Setup

NextConfig == Startup \/ Next

SpecConfig == InitConfig /\ [][NextConfig]_vars

\* ----------------------------------------------------------- Properties
Range(s) == {s[n] : n \in 1..Len(s)}

\* Workers for which a token is held: acquired and not yet released.
TokenHolders == {k \in Workers : acq[k] > rel[k]}

\* Workers whose goroutine is started and has not yet run its deferred release.
InSession == {k \in Workers : wpc[k] \in {"start", "select", "send", "release"}}

AllWorkersReturned == \A k \in Workers : wpc[k] = "exit"

\* C1 (admission bound): in every reachable state the number of workers for
\* which a token is acquired and not yet released, the number of tokens the
\* semaphore counts as held, and the number of started workers that have not
\* yet released, are each at most the parallelism setting.
C1_AdmissionBound ==
    /\ Cardinality(TokenHolders) =< parallelism
    /\ smCur =< parallelism
    /\ Cardinality(InSession) =< parallelism

\* All tokens are held by workers inside their session while the dispatch
\* loop waits to acquire one for a further image.
C1_Witness ==
    /\ parallelism >= 1
    /\ Cardinality(InSession) = parallelism
    /\ pc = "acquire"

\* C2 (join before close): once close(resCh) has been executed every worker
\* has returned, so no worker is sending, blocked in a send, or yet to send
\* on resCh at or after the close, and no send or close has panicked.
C2_JoinBeforeClose ==
    /\ (resChClosed \/ pc \in {"reswait", "jobdone", "returned"}) =>
           /\ i = Len(images)
           /\ AllWorkersReturned
    /\ ~panicked

\* resCh is closed after two workers have forwarded output on it.
C2_Witness ==
    /\ resChClosed
    /\ Cardinality({m.src : m \in Range(sentLog)}) >= 2

\* C3 (shutdown ordering): the main goroutine passes dispatch complete,
\* workers joined, resCh closed, aggregator drained and job.Done() in this
\* order, and at each point what the earlier ones established holds: all
\* images dispatched; every worker returned; resCh closed; the aggregator
\* exited with every sent item processed and no job.Process in progress.
\* job.Done() has been invoked only in such a state.
C3_ShutdownOrdering ==
    /\ pc \in {"wait", "close", "reswait", "jobdone", "returned"} =>
           i = Len(images)
    /\ pc \in {"close", "reswait", "jobdone", "returned"} =>
           AllWorkersReturned /\ wg = 0
    /\ pc \in {"reswait", "jobdone", "returned"} => resChClosed
    /\ pc \in {"jobdone", "returned"} =>
           /\ apc = "exit"
           /\ resWg = 0
           /\ processing = 0
           /\ procLog = sentLog
    /\ resChClosed => pc \in {"reswait", "jobdone", "returned"}
    /\ apc \in {"resdone", "exit"} => resChClosed
    /\ doneCalls > 0 => pc = "returned"

\* job.Done() has been invoked in a run in which two lines were processed.
C3_Witness ==
    /\ doneCalls = 1
    /\ Len(procLog) >= 2

\* The lines of session k in a log of VMOutputs, in the order of the log.
LinesOf(log, k) ==
    LET own == SelectSeq(log, LAMBDA m : m.src = k)
    IN  [n \in 1..Len(own) |-> own[n].Line]

\* The lines of session k on their way from the session to job.Process, in
\* emission order: the one the aggregator holds before the call, the one the
\* worker is sending, the one the session offers (before its Done).
InFlight(k) ==
    (IF apc = "call" /\ res.src = k THEN <<res.Line>> ELSE <<>>)
    \o (IF wpc[k] = "send" THEN <<wval[k].Line>> ELSE <<>>)
    \o (IF offer[k].kind = "CmdOutput" /\ ~doneEmitted[k]
          THEN <<offer[k].line>> ELSE <<>>)

\* C4 (no lost output): at every moment the CmdOutput lines a session has
\* emitted before its Done are, in emission order and each exactly once,
\* the lines of that session already passed to job.Process followed by those
\* still in flight; once the workers have returned and resCh is drained
\* (job.Done() is about to be called), all of them have been passed to
\* job.Process, in emission order, with none dropped or duplicated.
C4_NoLostOutput ==
    /\ \A k \in Workers : outs[k] = LinesOf(procLog, k) \o InFlight(k)
    /\ pc \in {"jobdone", "returned"} =>
           \A k \in Workers : LinesOf(procLog, k) = outs[k]

\* A run has finished in which two sessions each had two lines processed,
\* the lines of the two sessions interleaved.
C4_Witness ==
    /\ pc = "returned"
    /\ Len(images) >= 2
    /\ LinesOf(procLog, 1) = <<1, 2>>
    /\ LinesOf(procLog, 2) = <<1, 2>>
    /\ procLog[1].src = 2
    /\ procLog[2].src = 1
    /\ procLog[3].src = 2

\* C5 (single consumer): at most one job.Process invocation is in progress,
\* also while several workers are blocked sending on resCh, and job.Process
\* is invoked on the VMOutputs in the order their sends completed: the
\* invocation log is the send log, less the one item the aggregator has
\* received and not yet passed on.
C5_SingleConsumer ==
    /\ processing =< 1
    /\ processing = 1 <=> apc = "process"
    /\ IF apc = "call"
         THEN sentLog = Append(procLog, res)
         ELSE sentLog = procLog

\* job.Process is in progress while two workers are blocked in a send.
C5_Witness ==
    /\ processing = 1
    /\ Cardinality({k \in Workers : wpc[k] = "send"}) >= 2

\* The orchestrator states of the specification, as positions of runApp.
Phase ==
    CASE pc \in {"loop", "acquire", "go"} -> 0    \* Dispatching
      [] pc = "wait"                      -> 1    \* AwaitingWorkers
      [] pc \in {"close", "reswait"}      -> 2    \* Draining
      [] pc \in {"jobdone", "returned"}   -> 3    \* Finalized

\* C6 (exactly-once finalization): the orchestrator never moves back to an
\* earlier state and enters each state from the one before it; resCh is
\* closed at most once and job.Done() invoked at most once, by the main
\* goroutine only; a run that has returned has closed resCh exactly once and
\* invoked job.Done() exactly once.
C6_ExactlyOnce ==
    /\ [](/\ closeCalls = (IF pc \in {"reswait", "jobdone", "returned"} THEN 1 ELSE 0)
          /\ doneCalls = (IF pc = "returned" THEN 1 ELSE 0)
          /\ resChClosed <=> closeCalls = 1)
    /\ [][/\ Phase' \in {Phase, Phase + 1}
          /\ closeCalls' \in {closeCalls, closeCalls + 1}
          /\ doneCalls' \in {doneCalls, doneCalls + 1}]_vars

\* runApp has returned after dispatching two workers.
C6_Witness ==
    /\ pc = "returned"
    /\ Len(images) >= 2
    /\ doneCalls = 1
    /\ closeCalls = 1

\* C7 (token conservation): a token is acquired at most once per image and
\* released at most once, only by the worker started for it and only after
\* it was acquired; the semaphore holds exactly the tokens acquired and not
\* yet released; a worker that has left its loop and run its deferred
\* release has released exactly once, also after Error events; and once a
\* session has emitted Done its worker's token is eventually released.
C7_TokenConservation ==
    /\ [](/\ \A k \in Workers :
                /\ rel[k] =< acq[k]
                /\ acq[k] =< 1
                /\ acq[k] = (IF k =< i \/ (k = i + 1 /\ pc = "go") THEN 1 ELSE 0)
                /\ rel[k] = (IF wpc[k] \in {"wgdone", "exit"} THEN 1 ELSE 0)
          /\ smCur = Cardinality(TokenHolders)
          /\ ~panicked)
    /\ \A k \in 1..MaxImages :
          (k \in Workers /\ doneEmitted[k]) ~> (k \in Workers /\ rel[k] = 1)

\* A worker that received an Error event has released its token.
C7_Witness ==
    \E k \in Workers : errRecv[k] /\ rel[k] = 1 /\ acq[k] = 1

\* A step in which session k emits an Error event or worker k takes one.
ErrorStep(k) ==
    /\ offer'[k] # offer[k]
    /\ offer[k].kind = "Error" \/ offer'[k].kind = "Error"

\* C8 (isolation): a step in which session i emits an Error event, or worker
\* i receives one, changes nothing but session i's pending offer and worker
\* i's record of having seen an error: every worker (worker i included) keeps
\* its position and the value it is sending, every other session keeps its
\* offer, and the tokens, the join counters, resCh, the lines emitted, sent
\* and processed, and the main and aggregator goroutines are untouched.
C8_Isolation ==
    [][\A k \in Workers :
          ErrorStep(k) =>
              /\ \A j \in Workers \ {k} :
                    offer'[j] = offer[j] /\ errRecv'[j] = errRecv[j]
              /\ UNCHANGED <<wpc, wval, nOut, outs, doneEmitted, acq, rel,
                             wg, smCur, resWg, resChClosed, sentLog, procLog,
                             processing, closeCalls, doneCalls, panicked,
                             mainVars, aggVars, inputVars, cfgVars>>]_vars

\* Worker 1 has received an Error event and is still in its loop, while
\* worker 2 had both its lines processed and has returned.
C8_Witness ==
    /\ Len(images) >= 2
    /\ errRecv[1]
    /\ wpc[1] = "select"
    /\ ~errRecv[2]
    /\ LinesOf(procLog, 2) = <<1, 2>>
    /\ wpc[2] = "exit"

\* C9 (stalled session): a worker has left its loop, released its token or
\* returned only if its session has emitted Done; so as long as some started
\* session has not emitted Done, that worker holds its token, wg.Wait has
\* not returned, resCh is not closed and job.Done() has not been called,
\* whatever the other sessions have done.
C9_StalledSession ==
    /\ \A k \in Workers :
          ~doneEmitted[k] =>
              /\ wpc[k] \notin {"release", "wgdone", "exit"}
              /\ rel[k] = 0
              /\ wpc[k] # "idle" =>
                    /\ k \in TokenHolders
                    /\ wg >= 1
                    /\ pc \in {"loop", "acquire", "go", "wait"}
                    /\ ~resChClosed
                    /\ closeCalls = 0
                    /\ doneCalls = 0

\* All images are dispatched and worker 2 has returned, while session 1 has
\* emitted all of its output and an error but no Done: the join waits.
C9_Witness ==
    /\ Len(images) >= 2
    /\ pc = "wait"
    /\ wpc[2] = "exit"
    /\ ~doneEmitted[1]
    /\ wpc[1] = "select"
    /\ errRecv[1]
    /\ nOut[1] = MaxLines

\* C10 (zero images): with an empty image list no token is acquired, no
\* worker is counted or started, nothing is sent on resCh and job.Process
\* is never called; wg.Wait finds its counter at zero and the aggregator is
\* never waiting for a sender or for job.Process when the main goroutine
\* waits for it; job.Done() is called at most once, and is eventually called.
C10_ZeroImages ==
    /\ [](Len(images) = 0 =>
             /\ smCur = 0
             /\ wg = 0
             /\ sentLog = <<>>
             /\ procLog = <<>>
             /\ processing = 0
             /\ apc \in {"recv", "resdone", "exit"}
             /\ pc \in {"loop", "wait", "close", "reswait", "jobdone", "returned"}
             /\ pc = "reswait" => resChClosed
             /\ doneCalls = (IF pc = "returned" THEN 1 ELSE 0)
             /\ ~panicked)
    /\ (Len(images) = 0) ~> (Len(images) = 0 /\ pc = "returned" /\ doneCalls = 1)

\* runApp has returned from a run with no image.
C10_Witness ==
    /\ Len(images) = 0
    /\ pc = "returned"
    /\ doneCalls = 1
    /\ closeCalls = 1

\* runApp is past its call of validateParameters.
Validated == pc \notin {"main", "validate"}

\* No token is acquired, no worker counted or started, nothing sent or
\* processed, resCh not closed, no Job hook called.
NothingStarted ==
    /\ i = 0
    /\ smCur = 0
    /\ wg = 0
    /\ \A k \in Workers : wpc[k] = "idle" /\ acq[k] = 0 /\ offer[k] = NoEvent
    /\ sentLog = <<>>
    /\ procLog = <<>>
    /\ processing = 0
    /\ closeCalls = 0
    /\ doneCalls = 0

\* C11 (configuration errors): once validateParameters has run, runApp has
\* ended with its error exactly when cpus or parallelism exceeds the host
\* CPU count; it has then acquired no token, counted and started no worker,
\* sent and processed nothing, closed nothing and called no Job hook, and
\* stays so.  With neither above the host CPU count the run is accepted,
\* also when cpus * parallelism exceeds it, which exactly then is warned of.
C11_ConfigErrors ==
    /\ Validated =>
          /\ err \in {"cpus", "parallelism"}
                <=> (cpus > numCPU \/ parallelism > numCPU)
          /\ warned <=> /\ cpus =< numCPU
                        /\ parallelism =< numCPU
                        /\ cpus * parallelism > numCPU
    /\ ~Validated => err = "none" /\ ~warned /\ NothingStarted
    /\ err \in {"cpus", "parallelism"} => pc = "failed" /\ NothingStarted

\* runApp has returned the parallelism error for a non-empty image list
\* while the cpus are within the host's.
C11_Witness ==
    /\ err = "parallelism"
    /\ pc = "failed"
    /\ cpus =< numCPU
    /\ Len(images) >= 1

\* Workers that have taken Done from their session and released their token.
Released == {k \in Workers : rel[k] = 1 /\ doneEmitted[k]}

\* C12 (admission blocking): a worker is started only with a token
\* acquired for it; the acquire for one of the first P images never has to
\* wait; the acquire goes through only while fewer than P tokens are held;
\* and when the worker of an image beyond the first P is started (or about
\* to be), enough earlier workers have taken Done and released for no more
\* than P to hold a token: with P = 2 and three images the third worker is
\* never in its session while the first two both still are.
C12_AdmissionBlocking ==
    /\ [](/\ \A k \in Workers : wpc[k] # "idle" => acq[k] = 1
          /\ pc = "go" => acq[i + 1] = 1 /\ wpc[i + 1] = "idle"
          /\ (pc = "acquire" /\ i < parallelism) => TokenFree
          /\ \A k \in Workers :
                (acq[k] = 1 /\ k > parallelism) =>
                    Cardinality({j \in Released : j < k}) >= k - parallelism
          /\ (parallelism = 2 /\ Len(images) = 3) =>
                ~({1, 2, 3} \subseteq InSession))
    /\ [][(pc = "acquire" /\ pc' # pc) =>
             /\ smCur < parallelism
             /\ smCur' = smCur + 1
             /\ pc' = "go"]_vars

\* P = 2 and three images: the third worker runs its session beside the
\* first, after the second has taken Done and released its token.
C12_Witness ==
    /\ parallelism = 2
    /\ Len(images) = 3
    /\ wpc[1] = "select"
    /\ rel[2] = 1
    /\ wpc[3] = "select"

\* C13 (dispatch order): the workers started are exactly those of the first
\* i positions of the image list, one per position; a worker is started only
\* by the go statement of the loop, for the position after the ones already
\* dispatched, and never a second time; when the last image is dispatched
\* the loop goes on to wg.Wait without a further acquire or count.
C13_DispatchOrder ==
    /\ []({k \in Workers : wpc[k] # "idle"} = 1..i /\ i =< Len(images))
    /\ [][/\ \A k \in Workers :
                /\ wpc'[k] = "idle" => wpc[k] = "idle"
                /\ (wpc'[k] = "start" /\ wpc[k] # "start") =>
                      /\ wpc[k] = "idle"
                      /\ pc = "go"
                      /\ k = i + 1
                      /\ i' = i + 1
          /\ i' \in {i, i + 1}
          /\ (pc = "loop" /\ i = Len(images) /\ pc' # pc) =>
                pc' = "wait" /\ wg' = wg /\ smCur' = smCur]_vars

\* Two images of the same name are both dispatched and the main goroutine
\* is at wg.Wait while neither worker has finished or even begun.
C13_Witness ==
    /\ Len(images) = 2
    /\ images[1] = images[2]
    /\ pc = "wait"
    /\ wpc[1] = "start"
    /\ wpc[2] = "start"

\* Positions of a worker inside its event loop, and after it.
InLoop == {"select", "send"}
PastLoop == {"release", "wgdone", "exit"}

\* Worker k takes the event its session offers.
Takes(k) == offer[k] # NoEvent /\ offer'[k] = NoEvent

\* C14 (Done is the only exit): a worker leaves its loop only by taking Done
\* at its select, and then goes to its deferred release; taking an Error,
\* Info, Debug or CmdOutput event leaves it in the loop; it releases its
\* token and signals the join only after the loop; so a worker past its loop
\* has taken the Done of its session.
C14_DoneOnlyExit ==
    /\ [](\A k \in Workers :
             wpc[k] \in PastLoop => doneEmitted[k] /\ offer[k].kind # "Done")
    /\ [][\A k \in Workers :
             /\ (wpc[k] \in InLoop /\ wpc'[k] \notin InLoop) =>
                   /\ wpc[k] = "select"
                   /\ offer[k].kind = "Done"
                   /\ Takes(k)
                   /\ wpc'[k] = "release"
             /\ (Takes(k) /\ offer[k].kind # "Done") => wpc'[k] \in InLoop
             /\ rel'[k] # rel[k] => wpc[k] = "release" /\ wpc'[k] = "wgdone"
             /\ wpc[k] \in PastLoop => wpc'[k] \in PastLoop]_vars

\* A worker that has received an Error has since taken a CmdOutput event
\* and is sending it.
C14_Witness ==
    \E k \in Workers : errRecv[k] /\ wpc[k] = "send" /\ wval[k].Line = 2

\* C15 (only command output is forwarded): every VMOutput passed to
\* job.Process carries the image and a line of a CmdOutput event its session
\* emitted before Done, no such event is passed twice; a worker starts a
\* send only on taking a CmdOutput event, with that event's line, and the
\* send log grows only by the value a sending worker holds.
C15_OnlyCmdOutput ==
    /\ [](/\ \A n \in 1..Len(procLog) :
                /\ procLog[n].src \in Workers
                /\ procLog[n].VM = images[procLog[n].src]
                /\ procLog[n].Line \in Range(outs[procLog[n].src])
          /\ \A n, m \in 1..Len(procLog) :
                (n # m /\ procLog[n].src = procLog[m].src) =>
                    procLog[n].Line # procLog[m].Line)
    /\ [][/\ \A k \in Workers :
                (wpc'[k] = "send" /\ wpc[k] # "send") =>
                    /\ Takes(k)
                    /\ offer[k].kind = "CmdOutput"
                    /\ wval'[k] = VMOutput(k, offer[k].line)
          /\ sentLog' # sentLog =>
                \E k \in Workers :
                    /\ wpc[k] = "send"
                    /\ sentLog' = Append(sentLog, wval[k])]_vars

\* A session emitted two lines and an error and then Done: the Job got the
\* two lines, in order, and nothing else from it.
C15_Witness ==
    /\ Len(images) >= 1
    /\ errRecv[1]
    /\ wpc[1] = "exit"
    /\ LinesOf(procLog, 1) = <<1, 2>>
    /\ Len(procLog) = 2

\* C16 (consumption discipline): a worker takes an event of its session only
\* at its select, hence none while it is sending and none after it has taken
\* Done; while it is sending it holds its token and the value to send.
C16_ConsumptionDiscipline ==
    /\ [](\A k \in Workers :
             wpc[k] = "send" => k \in TokenHolders /\ wval[k] # NoMsg)
    /\ [][\A k \in Workers :
             /\ offer'[k] # offer[k] /\ offer[k] # NoEvent =>
                   wpc[k] = "select" /\ offer'[k] = NoEvent
             /\ wpc[k] = "send" =>
                   /\ rel'[k] = rel[k]
                   /\ wpc'[k] \in {"send", "select"}
                   /\ wpc'[k] = "select" => sentLog' = Append(sentLog, wval[k])]_vars

\* One worker is blocked in a send while its session already offers Done,
\* and another has returned while its session offers a further event.
C16_Witness ==
    \E k, j \in Workers :
        /\ wpc[k] = "send"
        /\ offer[k].kind = "Done"
        /\ wpc[j] = "exit"
        /\ offer[j] # NoEvent

\* C17 (VM identification): every VMOutput passed to job.Process carries
\* the identifier of the session that produced it, and no other worker of
\* the run, one running the same image included, has that identifier.
C17_VMIdentifies ==
    \A n \in 1..Len(procLog) :
        /\ procLog[n].VM = VMOutput(procLog[n].src, procLog[n].Line).VM
        /\ \A j \in Workers \ {procLog[n].src} :
              VMOutput(j, procLog[n].Line).VM # procLog[n].VM

\* C19 (release before join): the tokens held are between 0 and P and never
\* more than the workers the join still waits for; no worker has released
\* more than was acquired for it; the join counter goes down only by a
\* worker that has already released; and once wg.Wait has returned, so at
\* close(resCh) and at job.Done(), no token is held.
C19_ReleaseBeforeJoin ==
    /\ [](/\ 0 =< smCur /\ smCur =< parallelism
          /\ smCur =< wg
          /\ \A k \in Workers : rel[k] =< acq[k]
          /\ pc \in {"close", "reswait", "jobdone", "returned"} =>
                smCur = 0 /\ TokenHolders = {}
          /\ (resChClosed \/ doneCalls > 0) => smCur = 0)
    /\ [][wg' < wg =>
             \E k \in Workers :
                 /\ wpc[k] = "wgdone"
                 /\ rel[k] = 1
                 /\ wpc'[k] = "exit"
                 /\ wg' = wg - 1]_vars

\* The last worker has released its token and not yet signalled the join
\* the main goroutine is waiting in.
C19_Witness ==
    /\ pc = "wait"
    /\ wg = 1
    /\ smCur = 0
    /\ \E k \in Workers : wpc[k] = "wgdone" /\ rel[k] = 1

\* C20 (defaults are valid): on every host with at least one CPU, building
\* the flag table computes defaultParallelism() and defaultNumCPUs() without
\* a division error, both are at least 1, and the two defaults together pass
\* validateParameters with cpus * parallelism within the host's CPU count.
C20_DefaultsValid ==
    numCPU >= 1 =>
        /\ pc = "main" => ~panicked
        /\ pc # "main" =>
              /\ defaultParallelism(numCPU) >= 1
              /\ defaultNumCPUs(numCPU).val >= 1
              /\ validateParameters(defaultNumCPUs(numCPU).val,
                                    defaultParallelism(numCPU), numCPU) = "nil"
              /\ defaultNumCPUs(numCPU).val * defaultParallelism(numCPU)
                     =< numCPU

\* C18 (termination): for every image list and every parallelism value that
\* validateParameters accepts, if every started session eventually emits
\* Done, then under fair scheduling every image is eventually dispatched,
\* every worker eventually returns and job.Done() is eventually called.
\* (job.Process calls return by the fairness of the aggregator.)
C18_Termination ==
    (/\ validateParameters(cpus, parallelism, numCPU) = "nil"
     /\ \A k \in 1..MaxImages :
           (k \in Workers /\ wpc[k] # "idle")
               ~> (k \in Workers /\ doneEmitted[k]))
    => <>(/\ i = Len(images)
          /\ AllWorkersReturned
          /\ doneCalls = 1
          /\ pc = "returned")
====
